---- MODULE Spec2Model ----
(***************************************************************************)
(* Create/Read/Update/Delete handlers of the Cosmos DB SQL resources       *)
(* (trigger, function, stored procedure, database, role assignment, role   *)
(* definition) as a state machine.  Every handler invocation runs in a     *)
(* slot of Handlers; one action is one remote call (or one blocking wait)  *)
(* of the handler together with the local code that follows it up to the   *)
(* next call.  The remote API is the environment: a call answers from the  *)
(* remote state or fails.                                                  *)
(***************************************************************************)
EXTENDS Integers, Sequences, FiniteSets, TLC

\* Number of handler invocations in one behaviour.
MaxRuns == 2

\* The slots handler invocations run in: two invocations may be in flight.
Handlers == {1, 2}
NoHolder == 0

Kinds == {"trigger", "function", "storedproc", "database",
          "roleassignment", "roledefinition"}
Ops == {"create", "read", "update", "delete"}

\* The SQL database and the SQL role definition have a data source as well;
\* its Read is the operation "dataread".
OpsOf(k) ==
    Ops \cup (IF k \in {"database", "roledefinition"} THEN {"dataread"} ELSE {})

\* Resources whose handlers can interact: the two role resources share the
\* account lock, every other resource type has its own remote objects.
Families == {{"trigger"}, {"function"}, {"storedproc"}, {"database"},
             {"roleassignment", "roledefinition"}}

\* meta.(*clients.Client).Account.SubscriptionId
SubscriptionId == "sub1"
Subscriptions == {"sub1", "sub2"}

NewID(sub, acct, name) == [sub |-> sub, acct |-> acct, name |-> name]
NoId == NewID("", "", "")
Ids == {NewID(SubscriptionId, "acct1", "n1"),
        NewID(SubscriptionId, "acct1", "n2"),
        NewID(SubscriptionId, "acct2", "n1")}
Accounts == {i.acct : i \in Ids}

\* The identifiers the handlers of kind k are invoked with.  Only the role
\* resources use the account of the identifier (as the lock name): role
\* assignments are invoked with all three identifiers, role definitions with
\* the one that shares its account with others, the SQL database, whose
\* handlers meet only at the remote object, with that one too, the other
\* kinds with the two of one account.
TargetIds(k) ==
    CASE k = "roleassignment" -> Ids
      [] k \in {"roledefinition", "database"} ->
             {NewID(SubscriptionId, "acct1", "n1")}
      [] OTHER -> {i \in Ids : i.acct = "acct1"}

\* The last static segment of the resource ID of each kind.
Segment(k) ==
    CASE k = "trigger" -> "triggers"
      [] k = "function" -> "userDefinedFunctions"
      [] k = "storedproc" -> "storedProcedures"
      [] k = "database" -> "sqlDatabases"
      [] k = "roleassignment" -> "sqlRoleAssignments"
      [] k = "roledefinition" -> "sqlRoleDefinitions"

\* id.ID(): the ID string, as its sequence of segments.
IDString(k, id) ==
    <<"subscriptions", id.sub, "databaseAccounts", id.acct, Segment(k), id.name>>
EmptyIDString == <<>>
BadIDString == <<"malformed">>

\* ParseID as it would be if it took the account for the name and the name
\* for the account.
ParseIDSwapped(k, s) ==
    IF Len(s) = 6 THEN NewID(s[2], s[6], s[4]) ELSE NoId

\* ParseXxxID: the identifier of an ID string, NoId when it does not parse.
ParseID(k, s) ==
    IF /\ Len(s) = 6
       /\ s[1] = "subscriptions"
       /\ s[3] = "databaseAccounts"
       /\ s[5] = Segment(k)
    THEN NewID(s[2], s[4], s[6])
    ELSE NoId

Absent == "absent"
NoBody == "nobody"
\* The payload of the create/update request (body of a trigger, function or
\* stored procedure; the properties of a role resource) configured for the
\* invocation in slot h: a value of its own, which no remote object holds
\* initially.  The request of the SQL database carries no such field.
InitialBody(k) == IF k = "database" THEN NoBody ELSE "b0"
Payload(k, h) ==
    IF k = "database" THEN NoBody ELSE IF h = 1 THEN "b1" ELSE "b2"

(***************************************************************************)
(* Responses of the generated client.                                      *)
(***************************************************************************)
Resp(err, status, modelId, props, body) ==
    [err |-> err, status |-> status, modelId |-> modelId, props |-> props,
     body |-> body]
NoResp == Resp(FALSE, -1, "none", FALSE, NoBody)
Transport == Resp(TRUE, 0, "none", FALSE, NoBody)
HttpError == Resp(TRUE, 500, "none", FALSE, NoBody)
NotFound == Resp(TRUE, 404, "none", FALSE, NoBody)
Accepted == Resp(FALSE, 202, "none", FALSE, NoBody)

\* response.WasNotFound: false for a nil HttpResponse (status 0).
WasNotFound(r) == r.status = 404

\* Answers of a get call for the object (k, id) in remote state rem: the
\* object, "not found", or a failure with or without an HTTP response (a
\* context that is done shows as the latter).  idStates and propStates are the
\* shapes of Model.Id and Model.Properties the caller reads.
GetResponses(rem, k, id, idStates, propStates) ==
    {Transport, HttpError} \cup
    (IF rem[<<k, id>>] = Absent
     THEN {NotFound}
     ELSE {Resp(FALSE, 200, i, p, rem[<<k, id>>]) :
               i \in idStates, p \in propStates})

\* Answers of a create/update call (a PUT): accepted, or an error.
PutResponses == {Accepted, NotFound, HttpError, Transport}

\* Answers of a delete call for the object (k, id).
DeleteResponses(rem, k, id) ==
    {Transport, HttpError} \cup
    (IF rem[<<k, id>>] = Absent THEN {NotFound} ELSE {Accepted})

\* Answers of DatabaseAccountsGet: an error, or the account with the shape of
\* its Id and its capability list (a name of "" stands for a nil Name).
Account(err, idState, hasProps, hasCaps, caps) ==
    [err |-> err, idState |-> idState, hasProps |-> hasProps,
     hasCaps |-> hasCaps, caps |-> caps]
NoAccount == Account(FALSE, "none", FALSE, FALSE, <<>>)
AccountResponses ==
    {Account(TRUE, "nil", FALSE, FALSE, <<>>),
     Account(FALSE, "nil", TRUE, TRUE, <<>>),
     Account(FALSE, "empty", TRUE, TRUE, <<>>),
     Account(FALSE, "valid", FALSE, FALSE, <<>>),
     Account(FALSE, "valid", TRUE, FALSE, <<>>)} \cup
    {Account(FALSE, "valid", TRUE, TRUE, l) :
        l \in {<<>>, <<"EnableServerless">>, <<"EnableTable">>,
               <<"", "EnableServerless">>, <<"">>}}

(***************************************************************************)
(* Values of the adapters: a pointer is nil or holds a value; a call        *)
(* returns a value or panics.                                               *)
(***************************************************************************)
Nil == [nil |-> TRUE, v |-> <<>>]
Ptr(v) == [nil |-> FALSE, v |-> v]
Value(v) == [panic |-> FALSE, applied |-> TRUE, v |-> v]
Panic == [panic |-> TRUE, applied |-> TRUE, v |-> <<>>]
NoOut == [panic |-> FALSE, applied |-> FALSE, v |-> <<>>]

(***************************************************************************)
(* The custom pager of ListByFleet.  A link is the number of the page it   *)
(* leads to, NoLink is the nil link.                                       *)
(***************************************************************************)
NoLink == 0

\* &ListByFleetCustomPager{}, and the paging loop before its first request.
\*   NextLink : the link the pager stores
\*   pc       : where the loop stands
\*   page     : the page the loop requests
\*   fetched  : the pages decoded so far
\*   returned : the values NextPageLink has returned so far
NewPager == [NextLink |-> NoLink, pc |-> "request", page |-> 1,
             fetched |-> <<>>, returned |-> <<>>]
NoPager == [NewPager EXCEPT !.pc = "idle"]

\* NextPageLink as it would be if it left the stored link in place.
NextPageLinkKeep(p) == [result |-> p.NextLink, p |-> p]

\* ListByFleetCustomPager.NextPageLink: the stored link is the result, and
\* the deferred function sets the stored link to nil.
NextPageLink(p) ==
    [result |-> p.NextLink, p |-> [p EXCEPT !.NextLink = NoLink]]

(***************************************************************************)
(* Results of a handler.                                                   *)
(***************************************************************************)
Result(err, id, cause) == [err |-> err, id |-> id, cause |-> cause]
Pending == Result("pending", EmptyIDString, "")
Success == Result("none", EmptyIDString, "")

VARIABLES
    family,     \* the resource kinds of this behaviour
    remote,     \* <<kind, id>> -> body of the remote object, or Absent
    locks,      \* account name -> handler holding the named lock, or NoHolder
    runs,       \* number of handler invocations so far
    pc,         \* handler -> the step it is about to take
    kind,       \* handler -> resource kind
    op,         \* handler -> operation
    target,     \* handler -> the identifier it addresses
    dId,        \* handler -> d.Id(), an ID string
    dBody,      \* handler -> the payload field of d
    dTput,      \* handler -> the throughput fields of d
    probe,      \* handler -> answer of the existence probe
    called,     \* handler -> answer of its last mutating call
    refreshed,  \* handler -> answer of the get call of Read
    account,    \* handler -> answer of DatabaseAccountsGet
    steps,      \* handler -> the steps issued so far, in order
    result,     \* handler -> what the handler returned
    elapsed,    \* handler -> the timeouts that have elapsed while it waits
                \*            in PollUntilDone and did not end the wait
    fn,         \* the adapter or predicate applied (SpecPure)
    arg,        \* its argument
    out,        \* its result, NoOut until it is applied
    throughputResp, \* handler -> the answer of the throughput fetch of Read
    container,  \* handler -> the subscription of container_id, as configured
                \*            and as held in the state
    raced,      \* handler -> a Create of the same object has returned success
                \*            while this Create was in progress
    hasThroughputChange, \* handler -> common.HasThroughputChange(d)
    pager       \* the ListByFleetCustomPager of a ListByFleet call and the
                \* paging loop that drives it

vars == <<family, remote, locks, runs, pc, kind, op, target, dId, dBody,
          dTput, probe, called, refreshed, account, steps, result, elapsed,
          fn, arg, out, throughputResp, container, raced, hasThroughputChange,
          pager>>

Range(s) == {s[i] : i \in 1..Len(s)}

\* Locking as it would be if the Update handlers took no lock.
LockingNoUpdate(k, o) ==
    /\ k \in {"roleassignment", "roledefinition"}
    /\ o \in {"create", "delete"}

\* Locking as it would be if the Delete handlers took no lock.
LockingNoDelete(k, o) ==
    /\ k \in {"roleassignment", "roledefinition"}
    /\ o \in {"create", "update"}

\* Locking as it would be if the Read handlers of the role resources took the
\* lock as well.
LockingRead(k, o) == k \in {"roleassignment", "roledefinition"}

\* Locking as it would be if Create did not take the lock.
LockingNoCreate(k, o) ==
    /\ k \in {"roleassignment", "roledefinition"}
    /\ o \in {"update", "delete"}

\* Create, Update and Delete of the role resources take the named lock; no
\* Read handler and no handler of another resource does.
Locking(k, o) ==
    /\ k \in {"roleassignment", "roledefinition"}
    /\ o \in {"create", "update", "delete"}

\* locks.ByName(id.DatabaseAccountName, CosmosDbAccountResourceName)
LockKey(k, id) == id.acct

\* locks.ByName / locks.UnlockByName: a mutex per name.
CanLock(l, key) == l[key] = NoHolder
ByName(l, key, h) == [l EXCEPT ![key] = h]
UnlockByName(l, key) == [l EXCEPT ![key] = NoHolder]

\* The timeout the handler's context is derived from.
CtxKind(k, o) ==
    IF k \in {"storedproc", "database"} /\ o = "update" THEN "create" ELSE o


\* d.Get("container_id"): the subscription of the container ID of a trigger
\* or function, as configured and as the state holds it.
ContainerId(sub) == [configured |-> sub, state |-> sub]

\* The subscriptions a configured container_id may name: a trigger or a
\* function is created in a container of any subscription.
ContainerSubscriptions(k, o) ==
    IF k \in {"trigger", "function"} /\ o = "create"
    THEN Subscriptions ELSE {SubscriptionId}

\* common.HasThroughputChange(d): the configured throughput of a SQL
\* database may differ from the state when it is updated.
ThroughputChanges(k, o) ==
    IF k = "database" /\ o = "update" THEN BOOLEAN ELSE {FALSE}

\* The state of the handlers before any invocation.
InitHandlers ==
    /\ remote \in {[x \in Kinds \X Ids |-> Absent],
                   [x \in Kinds \X Ids |->
                       IF x[1] \in family THEN InitialBody(x[1]) ELSE Absent]}
    /\ locks = [a \in Accounts |-> NoHolder]
    /\ runs = 0
    /\ pc = [h \in Handlers |-> "idle"]
    /\ kind = [h \in Handlers |-> "trigger"]
    /\ op = [h \in Handlers |-> "read"]
    /\ target = [h \in Handlers |-> NoId]
    /\ dId = [h \in Handlers |-> EmptyIDString]
    /\ dBody = [h \in Handlers |-> NoBody]
    /\ dTput = [h \in Handlers |-> "config"]
    /\ probe = [h \in Handlers |-> NoResp]
    /\ called = [h \in Handlers |-> NoResp]
    /\ refreshed = [h \in Handlers |-> NoResp]
    /\ account = [h \in Handlers |-> NoAccount]
    /\ steps = [h \in Handlers |-> <<>>]
    /\ result = [h \in Handlers |-> Pending]
    /\ elapsed = [h \in Handlers |-> {}]
    /\ throughputResp = [h \in Handlers |-> NoResp]
    /\ container = [h \in Handlers |-> ContainerId(SubscriptionId)]
    /\ raced = [h \in Handlers |-> FALSE]
    /\ hasThroughputChange = [h \in Handlers |-> FALSE]

Init ==
    /\ family \in Families
    /\ InitHandlers
    /\ fn = "none"
    /\ arg = Nil
    /\ out = NoOut
    /\ pager = NoPager

\* The results of the handlers that have returned are consumed by the caller
\* before anything else happens.
Consumed == \A h \in Handlers : pc[h] # "done"

\* The account and throughput reads that end Read of the SQL database touch
\* nothing another handler reads or writes: they are taken right after the
\* Get of the database, before another handler steps.
Uninterrupted ==
    /\ Consumed
    /\ \A h \in Handlers : pc[h] \notin {"racct", "rtput"}

\* The handler goes on to step p.
Goto(h, p) ==
    /\ pc' = [pc EXCEPT ![h] = p]
    /\ UNCHANGED <<result, locks, elapsed, raced>>

\* Deferred as it would be if the lock were released before a successful
\* return only, not by a deferred call.
DeferredOnSuccess(l, h, res) ==
    IF "lock" \in Range(steps[h]) /\ res.err = "none"
    THEN UnlockByName(l, LockKey(kind[h], target[h]))
    ELSE l

\* The deferred calls of a returning handler that has passed locks.ByName:
\* defer locks.UnlockByName(id.DatabaseAccountName, CosmosDbAccountResourceName)
Deferred(l, h, res) ==
    IF "lock" \in Range(steps[h])
    THEN UnlockByName(l, LockKey(kind[h], target[h]))
    ELSE l

\* The Creates in progress that have seen a Create of the object they are
\* creating return success, with no successful Delete of it since; handler
\* h returns res.
Raced(h, res) ==
    [g \in Handlers |->
        IF /\ g # h
           /\ res.err = "none" /\ op[h] \in {"create", "delete"}
           /\ pc[g] \notin {"idle", "done"} /\ op[g] = "create"
           /\ kind[g] = kind[h] /\ target[g] = target[h]
        THEN op[h] = "create" ELSE raced[g]]

\* The handler returns res; its deferred calls run (unlock, cancel).
Return(h, res) ==
    /\ pc' = [pc EXCEPT ![h] = "done"]
    /\ result' = [result EXCEPT ![h] = res]
    /\ locks' = Deferred(locks, h, res)
    /\ elapsed' = [elapsed EXCEPT ![h] = {}]
    /\ raced' = Raced(h, res)

Log(h, s) == steps' = [steps EXCEPT ![h] = Append(@, s)]

\* The error a handler returns, formatted with the identifier it addresses.
Error(h, err, cause) == Result(err, IDString(kind[h], target[h]), cause)

\* The first remote step of an operation.
EntryStep(o) ==
    CASE o = "create" -> "probe"
      [] o \in {"read", "dataread"} -> "read"
      [] OTHER -> "mutate"

\* Where a handler of kind k starts operation o once its identifier is built.
FirstStep(k, o) == IF Locking(k, o) THEN "lock" ELSE EntryStep(o)

\* Where the Read handler starts, standalone or called inline for the refresh.
ReadEntry(k) == FirstStep(k, "read")

\* Trigger and function Update build the identifier from the configuration;
\* every other Update, and every Read and Delete, parse d.Id().
ParsesStoredId(k, o) ==
    \/ o \in {"read", "delete"}
    \/ o = "update" /\ k \notin {"trigger", "function"}

\* What can end a handler before its first remote step.
\*   "badid"   : d.Id() does not parse
\*   "uuid"    : the name is not configured and uuid.GenerateUUID fails
\*   "tpcheck" : CheckForChangeFromAutoscaleAndManualThroughput rejects
Variants(k, o) ==
    {"ok"}
    \cup (IF ParsesStoredId(k, o) THEN {"badid"} ELSE {})
    \cup (IF o = "create" /\ k \in {"roleassignment", "roledefinition"}
          THEN {"uuid"} ELSE {})
    \cup (IF o = "update" /\ k = "database" THEN {"tpcheck"} ELSE {})

EarlyError(v) ==
    CASE v = "badid" -> Result("parse", BadIDString, "")
      [] v = "uuid" -> Result("uuid", EmptyIDString, "")
      [] v = "tpcheck" -> Result("throughput_check", EmptyIDString, "")

\* StartStep as it would be if the local checks came after the first step.
StartStepLate(k, o, v) == FirstStep(k, o)

\* Where an invocation starts: a handler that fails its local checks (variant
\* v) returns before its first step.
StartStep(k, o, v) == IF v = "ok" THEN FirstStep(k, o) ELSE "done"

\* A handler is invoked: kind k, operation o, identifier id.
Begin(h, k, o, id, v) ==
    /\ pc[h] = "idle"
    /\ \A g \in Handlers : g < h => pc[g] # "idle"
    /\ Uninterrupted
    /\ runs < MaxRuns
    /\ runs' = runs + 1
    /\ kind' = [kind EXCEPT ![h] = k]
    /\ op' = [op EXCEPT ![h] = o]
    /\ dBody' = [dBody EXCEPT ![h] = Payload(k, h)]
    /\ dId' = [dId EXCEPT ![h] =
                 IF o \in {"create", "dataread"} THEN EmptyIDString
                 ELSE IF v = "badid" THEN BadIDString
                 ELSE IDString(k, id)]
    /\ target' = [target EXCEPT ![h] =
                    IF ParsesStoredId(k, o)
                    THEN ParseID(k, dId'[h])
                    ELSE IF v = "uuid" THEN NoId ELSE id]
    /\ LET n == StartStep(k, o, v) IN
        /\ pc' = [pc EXCEPT ![h] = n]
        /\ result' = IF n = "done" THEN [result EXCEPT ![h] = EarlyError(v)]
                      ELSE result
    /\ \E c \in ContainerSubscriptions(k, o) :
          container' = [container EXCEPT ![h] = ContainerId(c)]
    /\ \E tp \in ThroughputChanges(k, o) :
          hasThroughputChange' = [hasThroughputChange EXCEPT ![h] = tp]
    /\ UNCHANGED <<locks, elapsed, raced>>
    /\ UNCHANGED <<fn, arg, out, pager, throughputResp, family, remote, dTput, probe, called, refreshed, account,
                   steps>>

\* Where a handler goes on once it holds the lock.
AfterLock(h) ==
    IF op[h] = "read" \/ "poll" \in Range(steps[h])
    THEN "read"
    ELSE EntryStep(op[h])

\* locks.ByName returns: the handler holds the lock of its account.
Acquire(h) ==
    /\ Uninterrupted
    /\ pc[h] = "lock"
    /\ CanLock(locks, LockKey(kind[h], target[h]))
    /\ locks' = ByName(locks, LockKey(kind[h], target[h]), h)
    /\ pc' = [pc EXCEPT ![h] = AfterLock(h)]
    /\ Log(h, "lock")
    /\ UNCHANGED <<fn, arg, out, pager, hasThroughputChange, container, throughputResp, family, remote, runs, kind, op, target, dId, dBody,
                   dTput, probe, called, refreshed, account, result, elapsed,
                   raced>>

\* ProbeVerdict as it would be without the "already exists" guard.
ProbeVerdictNoGuard(k, r) ==
    IF r.err /\ ~WasNotFound(r) THEN "checking" ELSE "proceed"

\* ProbeVerdict as it would be if Create went on after any probe error.
ProbeVerdictAnyError(k, r) == IF r.err THEN "proceed" ELSE "import"

\* What Create does with the answer r of its existence probe.
ProbeVerdict(k, r) ==
    IF k \in {"storedproc", "database"}
    THEN IF r.err
         THEN (IF ~WasNotFound(r) THEN "checking" ELSE "proceed")
         ELSE (IF r.modelId = "nil" THEN "panic" ELSE "import")
    ELSE IF r.err /\ ~WasNotFound(r) THEN "checking"
         ELSE IF ~WasNotFound(r) THEN "import"
         ELSE "proceed"

\* The ID the import-required error names.
ImportId(k, id, r) ==
    IF k \in {"storedproc", "database"} /\ r.modelId # "valid"
    THEN EmptyIDString
    ELSE IDString(k, id)

\* The shapes of Model.Id the probe of kind k distinguishes.
ProbeIdStates(k) ==
    IF k \in {"storedproc", "database"} THEN {"valid", "empty", "nil"}
    ELSE {"valid"}

\* Create: the existence probe and the verdict on its answer.
Probe(h) ==
    /\ Uninterrupted
    /\ pc[h] = "probe"
    /\ \E r \in GetResponses(remote, kind[h], target[h],
                             ProbeIdStates(kind[h]), {TRUE}) :
        /\ probe' = [probe EXCEPT ![h] = r]
        /\ LET v == ProbeVerdict(kind[h], r) IN
           CASE v = "proceed" -> Goto(h, "mutate")
             [] v = "import" ->
                  Return(h, Result("import", ImportId(kind[h], target[h], r), ""))
             [] v = "checking" -> Return(h, Error(h, "checking", ""))
             [] v = "panic" -> Return(h, Error(h, "panic", ""))
    /\ Log(h, "probe")
    /\ UNCHANGED <<fn, arg, out, pager, hasThroughputChange, container, throughputResp, family, remote, runs, kind, op, target, dId, dBody,
                   dTput, called, refreshed, account>>

\* AfterCall as it would be if the handler went on to the refresh read
\* without waiting for the poller.
AfterCallNoPoll(k, o, r) ==
    IF ~r.err THEN (IF o = "delete" THEN "poll" ELSE "read")
    ELSE IF o = "delete" /\ k \in {"storedproc", "database"} /\ WasNotFound(r)
    THEN "pollnil"
    ELSE "return"

\* AfterCall as it would be if the error of the mutating call were dropped.
AfterCallSwallow(k, o, r) == "poll"

\* What a handler does with the answer r of its mutating call: it returns
\* the error, or it goes on to PollUntilDone; stored-procedure and database
\* Delete go on after a "not found" error too, with the poller of the failed
\* call.
AfterCall(k, o, r) ==
    IF ~r.err THEN "poll"
    ELSE IF o = "delete" /\ k \in {"storedproc", "database"} /\ WasNotFound(r)
    THEN "pollnil"
    ELSE "return"

\* The mutating call: create/update (a PUT) or delete.
Mutate(h) ==
    /\ Uninterrupted
    /\ pc[h] = "mutate"
    /\ \E r \in (IF op[h] = "delete"
                 THEN DeleteResponses(remote, kind[h], target[h])
                 ELSE PutResponses) :
        /\ called' = [called EXCEPT ![h] = r]
        /\ LET n == AfterCall(kind[h], op[h], r) IN
           IF n = "return" THEN Return(h, Error(h, "mutate", ""))
           ELSE Goto(h, n)
    /\ Log(h, "mutate")
    /\ UNCHANGED <<fn, arg, out, pager, hasThroughputChange, container, throughputResp, family, remote, runs, kind, op, target, dId, dBody,
                   dTput, probe, refreshed, account>>

\* d.SetId(id.ID()) follows the poll in Create and in the Updates of the
\* trigger, the function and the role resources.
SetsId(k, o) ==
    \/ o = "create"
    \/ o = "update" /\ k \notin {"storedproc", "database"}

\* AfterPoll as it would be if the throughput were updated whether it has
\* changed or not.
AfterPollAlways(k, o, tp) ==
    IF o = "delete" THEN "done"
    ELSE IF o = "update" /\ k = "database" THEN "tmutate"
    ELSE ReadEntry(k)

\* The step after the poller of the mutating call is done; tp is
\* common.HasThroughputChange(d).
AfterPoll(k, o, tp) ==
    IF o = "delete" THEN "done"
    ELSE IF o = "update" /\ k = "database" /\ tp THEN "tmutate"
    ELSE ReadEntry(k)

\* The effect of the completed operation on the remote object.
Applied(rem, k, o, id, b) ==
    [rem EXCEPT ![<<k, id>>] = IF o = "delete" THEN Absent ELSE b]

\* PollUntilDone returns nil: the remote operation has succeeded.
PollDone(h) ==
    /\ Uninterrupted
    /\ pc[h] = "poll"
    /\ remote' = Applied(remote, kind[h], op[h], target[h], dBody[h])
    /\ dId' = [dId EXCEPT ![h] =
                 IF SetsId(kind[h], op[h])
                 THEN IDString(kind[h], target[h]) ELSE @]
    /\ LET n == AfterPoll(kind[h], op[h], hasThroughputChange[h]) IN
        IF n = "done" THEN Return(h, Success) ELSE Goto(h, n)
    /\ Log(h, "poll")
    /\ UNCHANGED <<fn, arg, out, pager, hasThroughputChange, container, throughputResp, family, runs, kind, op, target, dBody, dTput, probe,
                   called, refreshed, account>>

\* PollUntilDone returns the failure of the remote operation.
PollFailed(h) ==
    /\ Uninterrupted
    /\ pc[h] \in {"poll", "tpoll"}
    /\ Return(h, Error(h, IF pc[h] = "poll" THEN "waiting" ELSE "waiting_throughput",
                       "failed"))
    /\ Log(h, pc[h])
    /\ UNCHANGED <<fn, arg, out, pager, hasThroughputChange, container, throughputResp, family, remote, runs, kind, op, target, dId, dBody,
                   dTput, probe, called, refreshed, account>>

\* PollUntilDone on the poller of a call that returned an error: the zero
\* poller reports an internal error without a remote call.
PollNil(h) ==
    /\ Uninterrupted
    /\ pc[h] \in {"pollnil", "tpollnil"}
    /\ Return(h, Error(h, IF pc[h] = "pollnil" THEN "waiting" ELSE "waiting_throughput",
                       "nilpoller"))
    /\ Log(h, IF pc[h] = "pollnil" THEN "poll" ELSE "tpoll")
    /\ UNCHANGED <<fn, arg, out, pager, hasThroughputChange, container, throughputResp, family, remote, runs, kind, op, target, dId, dBody,
                   dTput, probe, called, refreshed, account>>

\* AfterThroughputCall as it would be if no error of the call were looked at.
AfterThroughputCallIgnore(r) == "tpoll"

\* What SQL database Update does with the answer r of the throughput-update
\* call: only a "not found" error is returned.
AfterThroughputCall(r) ==
    IF ~r.err THEN "tpoll"
    ELSE IF WasNotFound(r) THEN "return"
    ELSE "tpollnil"

\* SQL database Update: the throughput-update call.
ThroughputUpdate(h) ==
    /\ Uninterrupted
    /\ pc[h] = "tmutate"
    /\ \E r \in PutResponses :
        /\ called' = [called EXCEPT ![h] = r]
        /\ LET n == AfterThroughputCall(r) IN
           IF n = "return" THEN Return(h, Error(h, "setting_throughput", ""))
           ELSE Goto(h, n)
    /\ Log(h, "tmutate")
    /\ UNCHANGED <<fn, arg, out, pager, hasThroughputChange, container, throughputResp, family, remote, runs, kind, op, target, dId, dBody,
                   dTput, probe, refreshed, account>>

\* SQL database Update: the throughput poller is done.
ThroughputPollDone(h) ==
    /\ Uninterrupted
    /\ pc[h] = "tpoll"
    /\ Goto(h, ReadEntry(kind[h]))
    /\ Log(h, "tpoll")
    /\ UNCHANGED <<fn, arg, out, pager, hasThroughputChange, container, throughputResp, family, remote, runs, kind, op, target, dId, dBody,
                   dTput, probe, called, refreshed, account>>

\* ReadBody as it would be if Read left the payload fields alone.
ReadBodyKeep(k, r, old) == old

\* The payload field after Read has written the answer r: the value of the
\* response when it carries Properties (and Resource), the old value if not.
ReadBody(k, r, old) == IF r.props /\ k # "database" THEN r.body ELSE old

\* Read of a trigger or function sets container_id to the container ID
\* built from the segments of the parsed ID.
ReadContainer(k, id, old) ==
    IF k \in {"trigger", "function"} THEN id.sub ELSE old

\* The identifier Read fetches: the resource Read parses d.Id(), the data
\* source builds it from the configuration.
ReadTarget(h) ==
    IF op[h] = "dataread" THEN target[h] ELSE ParseID(kind[h], dId[h])

\* GetVerdict as it would be if the data source took "not found" as the
\* resource Read does.
GetVerdictNoMissing(o, r) ==
    IF ~r.err THEN "ok"
    ELSE IF WasNotFound(r) THEN "gone"
    ELSE "error"

\* GetVerdict as it would be if "not found" were an error like any other.
GetVerdictNoGone(o, r) == IF ~r.err THEN "ok" ELSE "error"

\* What a Read (operation o) does with the answer r of its get call: the
\* resource Read takes "not found" as gone, the data source as an error.
GetVerdict(o, r) ==
    IF ~r.err THEN "ok"
    ELSE IF WasNotFound(r) THEN (IF o = "dataread" THEN "missing" ELSE "gone")
    ELSE "error"

\* Read: d.Id() is parsed, the object is fetched and its fields are written.
\* A "not found" answer clears the ID and is no error.  The data source sets
\* the ID once the object is fetched.
ReadGet(h) ==
    /\ Uninterrupted
    /\ pc[h] = "read"
    /\ \E r \in GetResponses(remote, kind[h], ReadTarget(h), {"valid"}, BOOLEAN) :
        /\ refreshed' = [refreshed EXCEPT ![h] = r]
        /\ LET v == GetVerdict(op[h], r) IN
           CASE v = "gone" ->
                  /\ dId' = [dId EXCEPT ![h] = EmptyIDString]
                  /\ Return(h, Success)
                  /\ UNCHANGED <<dBody, container>>
             [] v = "missing" ->
                  /\ Return(h, Error(h, "missing", ""))
                  /\ UNCHANGED <<dId, dBody, container>>
             [] v = "error" ->
                  /\ Return(h, Error(h, "retrieving", ""))
                  /\ UNCHANGED <<dId, dBody, container>>
             [] v = "ok" ->
                  /\ container' = [container EXCEPT ![h].state =
                                     ReadContainer(kind[h], ReadTarget(h), @)]
                  /\ dBody' = [dBody EXCEPT ![h] = ReadBody(kind[h], r, @)]
                  /\ dId' = [dId EXCEPT ![h] =
                               IF op[h] = "dataread"
                               THEN IDString(kind[h], target[h]) ELSE @]
                  /\ IF kind[h] = "database"
                     THEN Goto(h, "racct")
                     ELSE Return(h, Success)
    /\ Log(h, "read")
    /\ UNCHANGED <<fn, arg, out, pager, hasThroughputChange, throughputResp, family, remote, runs, kind, op, target, dTput, probe, called,
                   account>>

\* IsServerlessCapacityMode as it would be if only the first capability were
\* looked at.
IsServerlessCapacityModeFirst(accResp) ==
    /\ accResp.hasProps
    /\ accResp.hasCaps
    /\ Len(accResp.caps) > 0
    /\ accResp.caps[1] = "EnableServerless"

\* common.IsServerlessCapacityMode
IsServerlessCapacityMode(accResp) ==
    /\ accResp.hasProps
    /\ accResp.hasCaps
    /\ \E i \in 1..Len(accResp.caps) :
          accResp.caps[i] # "" /\ accResp.caps[i] = "EnableServerless"

\* AfterAccount as it would be if the throughput were fetched for every
\* account.
AfterAccountUngated(a) ==
    IF a.err THEN "account"
    ELSE IF a.idState # "valid" THEN "account_id"
    ELSE "rtput"

\* What Read of the SQL database does with the answer a of
\* DatabaseAccountsGet: the throughput is fetched unless the account is
\* serverless.
AfterAccount(a) ==
    IF a.err THEN "account"
    ELSE IF a.idState # "valid" THEN "account_id"
    ELSE IF IsServerlessCapacityMode(a) THEN "done"
    ELSE "rtput"

\* SQL database Read: the account is fetched to gate the throughput fetch.
ReadAccount(h) ==
    /\ Consumed
    /\ pc[h] = "racct"
    /\ \E a \in AccountResponses :
        /\ account' = [account EXCEPT ![h] = a]
        /\ LET n == AfterAccount(a) IN
           CASE n = "rtput" -> Goto(h, n)
             [] n = "done" -> Return(h, Success)
             [] OTHER -> Return(h, Error(h, n, ""))
    /\ Log(h, "racct")
    /\ UNCHANGED <<fn, arg, out, pager, hasThroughputChange, container, throughputResp, family, remote, runs, kind, op, target, dId, dBody,
                   dTput, probe, called, refreshed>>

\* ThroughputVerdict as it would be if "not found" were an error like any
\* other.
ThroughputVerdictStrict(r) == IF r.err THEN "error" ELSE "remote"

\* What Read of the SQL database does with the answer r of the throughput
\* fetch: on "not found" throughput and autoscale_settings are set to nil,
\* on success to the values of the response.
ThroughputVerdict(r) ==
    IF r.err /\ ~WasNotFound(r) THEN "error"
    ELSE IF r.err THEN "nil"
    ELSE "remote"

\* SQL database Read: the throughput fetch.
ReadThroughput(h) ==
    /\ Consumed
    /\ pc[h] = "rtput"
    /\ \E r \in {Transport, HttpError, NotFound, Accepted} :
        /\ throughputResp' = [throughputResp EXCEPT ![h] = r]
        /\ LET v == ThroughputVerdict(r) IN
           IF v = "error"
           THEN /\ Return(h, Error(h, "throughput_read", ""))
                /\ UNCHANGED dTput
           ELSE /\ Return(h, Success)
                /\ dTput' = [dTput EXCEPT ![h] = v]
    /\ Log(h, "rtput")
    /\ UNCHANGED <<fn, arg, out, pager, hasThroughputChange, container, family, remote, runs, kind, op, target, dId, dBody,
                   probe, called, refreshed, account>>

\* One of the configured timeouts elapses while the handler waits in
\* PollUntilDone.  The one its context was derived from ends the wait with the
\* context's error (as does the cancellation of StopContext); the timeout of
\* its operation, when that is another one, passes unnoticed.
TimeoutElapses(h, t) ==
    /\ Uninterrupted
    /\ pc[h] \in {"poll", "tpoll"}
    /\ t \in {op[h], CtxKind(kind[h], op[h])} \ elapsed[h]
    /\ IF t = CtxKind(kind[h], op[h])
       THEN /\ Return(h, Error(h, IF pc[h] = "poll" THEN "waiting"
                                  ELSE "waiting_throughput", "timeout"))
            /\ Log(h, pc[h])
       ELSE /\ elapsed' = [elapsed EXCEPT ![h] = @ \cup {t}]
            /\ UNCHANGED <<pc, result, locks, steps, raced>>
    /\ UNCHANGED <<fn, arg, out, pager, hasThroughputChange, container, throughputResp, family, remote, runs, kind, op, target, dId, dBody,
                   dTput, probe, called, refreshed, account>>

\* The caller takes the result of a returned handler; the slot is free again.
Reset(h) ==
    /\ pc[h] = "done"
    /\ pc' = [pc EXCEPT ![h] = "idle"]
    /\ kind' = [kind EXCEPT ![h] = "trigger"]
    /\ op' = [op EXCEPT ![h] = "read"]
    /\ target' = [target EXCEPT ![h] = NoId]
    /\ dId' = [dId EXCEPT ![h] = EmptyIDString]
    /\ dBody' = [dBody EXCEPT ![h] = NoBody]
    /\ dTput' = [dTput EXCEPT ![h] = "config"]
    /\ probe' = [probe EXCEPT ![h] = NoResp]
    /\ called' = [called EXCEPT ![h] = NoResp]
    /\ refreshed' = [refreshed EXCEPT ![h] = NoResp]
    /\ account' = [account EXCEPT ![h] = NoAccount]
    /\ steps' = [steps EXCEPT ![h] = <<>>]
    /\ result' = [result EXCEPT ![h] = Pending]
    /\ throughputResp' = [throughputResp EXCEPT ![h] = NoResp]
    /\ container' = [container EXCEPT ![h] = ContainerId(SubscriptionId)]
    /\ raced' = [raced EXCEPT ![h] = FALSE]
    /\ hasThroughputChange' = [hasThroughputChange EXCEPT ![h] = FALSE]
    /\ UNCHANGED <<fn, arg, out, pager, family, remote, locks, runs, elapsed>>

Next ==
    \E h \in Handlers :
        \/ \E k \in family :
             \E o \in OpsOf(k), id \in TargetIds(k) :
              \E v \in Variants(k, o) :
                Begin(h, k, o, id, v)
        \/ Acquire(h)
        \/ Probe(h)
        \/ Mutate(h)
        \/ PollDone(h)
        \/ PollFailed(h)
        \/ PollNil(h)
        \/ ThroughputUpdate(h)
        \/ ThroughputPollDone(h)
        \/ ReadGet(h)
        \/ ReadAccount(h)
        \/ ReadThroughput(h)
        \/ \E t \in Ops : TimeoutElapses(h, t)
        \/ Reset(h)

Spec == Init /\ [][Next]_vars

(***************************************************************************)
(* The pure adapters and predicates.  SpecPure draws a function and its    *)
(* argument from bounded sets and applies the function once.               *)
(***************************************************************************)
MaxCaps == 2
MaxPerms == 2
MaxActions == 2
MaxAccounts == 2
MaxLocs == 1
MaxThroughput == 2
MaxPages == 3

SeqsUpTo(S, n) == UNION {[1..m -> S] : m \in 0..n}

\* Capability names a database account may carry; "" is an entry whose Name
\* is nil.
CapabilityNames == {"", "EnableServerless", "EnableTable"}

\* Database accounts: Properties nil, Capabilities nil, or a capability list.
CapabilityInputs ==
    {Account(FALSE, "valid", FALSE, FALSE, <<>>),
     Account(FALSE, "valid", TRUE, FALSE, <<>>)} \cup
    {Account(FALSE, "valid", TRUE, TRUE, l) :
        l \in SeqsUpTo(CapabilityNames, MaxCaps)}

\* common.IsServerlessCapacityModeLegacy: the same scan over the account
\* type of the legacy SDK.
IsServerlessCapacityModeLegacy(accResp) ==
    /\ accResp.hasProps
    /\ accResp.hasCaps
    /\ \E i \in 1..Len(accResp.caps) :
          accResp.caps[i] # "" /\ accResp.caps[i] = "EnableServerless"

\* rbacs.Permission: DataActions is nil or a list of strings.
DataActionNames == {"read", "write"}
Permissions ==
    {[dataActions |-> Nil]} \cup
    {[dataActions |-> Ptr(l)] : l \in SeqsUpTo(DataActionNames, MaxActions)}
PermissionInputs ==
    {Nil} \cup {Ptr(l) : l \in SeqsUpTo(Permissions, MaxPerms)}

\* utils.FlattenStringSlice: nil gives the empty list.
FlattenStringSlice(p) == IF p.nil THEN <<>> ELSE p.v

\* flattenSqlRoleDefinitionPermissions
flattenSqlRoleDefinitionPermissions(input) ==
    IF input.nil THEN <<>>
    ELSE [i \in 1..Len(input.v) |->
             [data_actions |-> FlattenStringSlice(input.v[i].dataActions)]]

\* The schema of "permissions": a set of blocks whose "data_actions" is a
\* set of strings.  d.Set stores the flattened list as that set.
SetPermissions(flat) ==
    {[data_actions |-> Range(flat[i].data_actions)] : i \in 1..Len(flat)}

\* (*pluginsdk.Set).List(): the elements of a set, in the order of the set,
\* a fixed order on the values.
ActionCode(a) == IF a = "read" THEN 1 ELSE 2
PermissionCode(b) ==
    (IF "read" \in b.data_actions THEN 1 ELSE 0)
    + (IF "write" \in b.data_actions THEN 2 ELSE 0)
RECURSIVE ListOfActions(_)
ListOfActions(S) ==
    IF S = {} THEN <<>>
    ELSE LET m == CHOOSE x \in S : \A y \in S : ActionCode(x) <= ActionCode(y)
         IN <<m>> \o ListOfActions(S \ {m})
RECURSIVE ListOfPermissions(_)
ListOfPermissions(S) ==
    IF S = {} THEN <<>>
    ELSE LET m == CHOOSE x \in S :
                     \A y \in S : PermissionCode(x) <= PermissionCode(y)
         IN <<m>> \o ListOfPermissions(S \ {m})

\* expandSqlRoleDefinitionPermissions as it would be if it dropped the data
\* actions.
expandSqlRoleDefinitionPermissionsBare(input) ==
    Ptr([i \in 1..Len(input) |-> [dataActions |-> Ptr(<<>>)]])

\* expandSqlRoleDefinitionPermissions: input is the List() of the
\* "permissions" set.
expandSqlRoleDefinitionPermissions(input) ==
    Ptr([i \in 1..Len(input) |->
            [dataActions |-> Ptr(ListOfActions(input[i].data_actions))]])

\* Restorable database accounts: Properties nil, or an AccountName (""
\* is nil) and RestorableLocations, nil or a list.
LocationInputs == {Nil} \cup {Ptr(l) : l \in SeqsUpTo({"westus"}, MaxLocs)}
RestorableAccounts ==
    {[props |-> FALSE, accountName |-> "", restorableLocations |-> Nil]} \cup
    {[props |-> TRUE, accountName |-> n, restorableLocations |-> l] :
        n \in {"", "acct1", "acct2"}, l \in LocationInputs}
\* The data source flattens resp.Model.Value only when it is not nil.
AccountInputs == {Ptr(l) : l \in SeqsUpTo(RestorableAccounts, MaxAccounts)}

\* flattenCosmosDbRestorableDatabaseAccountsRestorableLocations: len(*input)
\* dereferences input.
flattenCosmosDbRestorableDatabaseAccountsRestorableLocations(input) ==
    IF input.nil THEN Panic
    ELSE Value([i \in 1..Len(input.v) |-> [location |-> input.v[i]]])

\* The account is one the data source asked for.
MatchesAccount(item, accountName) ==
    item.props /\ item.accountName # "" /\ item.accountName = accountName

\* flattenCosmosDbRestorableDatabaseAccounts as it would be if it kept the
\* accounts of every name.
flattenCosmosDbRestorableDatabaseAccountsAll(input, accountName) ==
    IF input.nil THEN Value(<<>>)
    ELSE Value([i \in 1..Len(input.v) |-> [restorable_locations |-> <<>>]])

\* flattenCosmosDbRestorableDatabaseAccounts: len(*input) dereferences
\* input; the accounts of the name asked for are kept, each with its
\* flattened locations.
flattenCosmosDbRestorableDatabaseAccounts(input, accountName) ==
    IF input.nil THEN Panic
    ELSE LET kept == SelectSeq(input.v,
                               LAMBDA item : MatchesAccount(item, accountName))
             locs == [i \in 1..Len(kept) |->
                        flattenCosmosDbRestorableDatabaseAccountsRestorableLocations(
                            kept[i].restorableLocations)]
         IN IF \E i \in 1..Len(kept) : locs[i].panic THEN Panic
            ELSE Value([i \in 1..Len(kept) |->
                          [restorable_locations |-> locs[i].v]])

\* The configuration of a SQL database: "throughput", unset or a number, and
\* the "autoscale_settings" block, absent or with its max_throughput.
Unset == [set |-> FALSE, value |-> 0]
Configured(n) == [set |-> TRUE, value |-> n]
DatabaseConfigs ==
    {[throughput |-> t, autoscale_settings |-> a] :
        t \in {Unset} \cup {Configured(n) : n \in 0..MaxThroughput},
        a \in {Unset} \cup {Configured(n) : n \in 1..MaxThroughput}}

\* d.GetOk: the value, and whether it is set to something but the zero
\* value.
GetOk(c) == [value |-> IF c.set THEN c.value ELSE 0,
             ok |-> c.set /\ c.value # 0]

\* CreateUpdateOptions as it would be if the throughput were always sent.
CreateUpdateOptionsAlways(d) ==
    [throughput |-> Ptr(GetOk(d.throughput).value),
     autoScaleSettings |-> IF GetOk(d.autoscale_settings).ok
                           THEN Ptr(GetOk(d.autoscale_settings).value)
                           ELSE Nil]

\* The options of the request of SQL database Create: empty, then filled
\* from what is configured.
CreateUpdateOptions(d) ==
    [throughput |-> IF GetOk(d.throughput).ok /\ GetOk(d.throughput).value # 0
                    THEN Ptr(GetOk(d.throughput).value)
                    ELSE Nil,
     autoScaleSettings |-> IF GetOk(d.autoscale_settings).ok
                           THEN Ptr(GetOk(d.autoscale_settings).value)
                           ELSE Nil]

\* d.Get("name") of the restorable database accounts data source.
AccountName == "acct1"

(***************************************************************************)
(* The generated client operations.  What the library calls give is an     *)
(* input: whether a response came back, its status, and whether the call   *)
(* returned an error.                                                      *)
(***************************************************************************)
Statuses == {"200", "404"}

\* (resp, err) of Request.Execute: without an error there is a response of
\* an expected status; with an error there is a response or none.
ExecuteOutcomes ==
    {[resp |-> Ptr("200"), err |-> FALSE]}
        \cup {[resp |-> r, err |-> TRUE] :
                 r \in {Nil} \cup {Ptr(s) : s \in Statuses}}

\* (resp, err) of autorest's Client.Send: the status is checked later, by
\* the responder, so a 404 comes back without an error.
SendOutcomes ==
    {[resp |-> Ptr(s), err |-> FALSE] : s \in Statuses}
        \cup {[resp |-> r, err |-> TRUE] :
                 r \in {Nil} \cup {Ptr(s) : s \in Statuses}}

\* newRequest, marshal, unmarshal: whether that step returns an error.
OperationInputs(marshalErrs) ==
    [newRequest : BOOLEAN, marshal : marshalErrs,
     execute : ExecuteOutcomes, unmarshal : BOOLEAN]

\* prepare: whether the preparer returns an error; decode: what
\* ByUnmarshallingJSON does to a body of status 200.
AutorestInputs ==
    [prepare : BOOLEAN, send : SendOutcomes,
     decode : {"ok", "failed", "failed partial"}]

OperationResponse(resp, model, err) ==
    [HttpResponse |-> resp, Model |-> model, err |-> err]

\* An operation that copies the response into the result only when the
\* request was executed without an error.
GetDiagnosticLogsConfigurationOnSuccess(in) ==
    IF in.newRequest
    THEN OperationResponse(Nil, Nil, TRUE)
    ELSE IF in.execute.err
    THEN OperationResponse(Nil, Nil, TRUE)
    ELSE OperationResponse(in.execute.resp, Ptr("model"), in.unmarshal)

\* WebAppsClient.GetDiagnosticLogsConfiguration.
GetDiagnosticLogsConfiguration(in) ==
    IF in.newRequest
    THEN OperationResponse(Nil, Nil, TRUE)
    ELSE IF in.execute.err
    THEN OperationResponse(in.execute.resp, Nil, TRUE)
    ELSE OperationResponse(in.execute.resp, Ptr("model"), in.unmarshal)

\* StaticSitesClient.CreateOrUpdateStaticSiteBuildAppSettings.
CreateOrUpdateStaticSiteBuildAppSettings(in) ==
    IF in.newRequest \/ in.marshal
    THEN OperationResponse(Nil, Nil, TRUE)
    ELSE IF in.execute.err
    THEN OperationResponse(in.execute.resp, Nil, TRUE)
    ELSE OperationResponse(in.execute.resp, Ptr("model"), in.unmarshal)

\* responderForRestorableDatabaseAccountsListByLocation: a status other
\* than 200 is an error and nothing is decoded; the response is stored in
\* the result in every case.
responderForRestorableDatabaseAccountsListByLocation(resp, decode) ==
    IF resp # Ptr("200")
    THEN OperationResponse(resp, Nil, TRUE)
    ELSE OperationResponse(resp,
                           IF decode = "failed" THEN Nil ELSE Ptr("model"),
                           decode # "ok")

\* RestorablesClient.RestorableDatabaseAccountsListByLocation.
RestorableDatabaseAccountsListByLocation(in) ==
    IF in.prepare
    THEN OperationResponse(Nil, Nil, TRUE)
    ELSE IF in.send.err
    THEN OperationResponse(in.send.resp, Nil, TRUE)
    ELSE responderForRestorableDatabaseAccountsListByLocation(in.send.resp,
                                                              in.decode)

Functions ==
    {"IsServerlessCapacityMode", "IsServerlessCapacityModeLegacy",
     "flattenSqlRoleDefinitionPermissions", "permissions",
     "flattenCosmosDbRestorableDatabaseAccounts",
     "flattenCosmosDbRestorableDatabaseAccountsRestorableLocations",
     "CreateUpdateOptions", "ListByFleet",
     "CreateOrUpdateStaticSiteBuildAppSettings",
     "GetDiagnosticLogsConfiguration",
     "RestorableDatabaseAccountsListByLocation"}

Inputs(f) ==
    CASE f \in {"IsServerlessCapacityMode", "IsServerlessCapacityModeLegacy"}
            -> CapabilityInputs
      [] f \in {"flattenSqlRoleDefinitionPermissions", "permissions"}
            -> PermissionInputs
      [] f = "flattenCosmosDbRestorableDatabaseAccounts" -> AccountInputs
      [] f = "flattenCosmosDbRestorableDatabaseAccountsRestorableLocations"
            -> LocationInputs
      [] f = "CreateUpdateOptions" -> DatabaseConfigs
      [] f = "ListByFleet" -> 1..MaxPages
      [] f = "CreateOrUpdateStaticSiteBuildAppSettings" -> OperationInputs(BOOLEAN)
      [] f = "GetDiagnosticLogsConfiguration" -> OperationInputs({FALSE})
      [] f = "RestorableDatabaseAccountsListByLocation" -> AutorestInputs

InitPure ==
    /\ family = {"roledefinition"}
    /\ InitHandlers
    /\ fn \in Functions
    /\ arg \in Inputs(fn)
    /\ out = NoOut
    /\ pager = IF fn = "ListByFleet" THEN NewPager ELSE NoPager

\* The function is applied once and gives res.
Gives(res) ==
    /\ ~out.applied
    /\ out' = res
    /\ UNCHANGED <<fn, arg, pager, throughputResp, container, raced,
                   hasThroughputChange, family, remote, locks, runs, pc, kind, op, target,
                   dId, dBody, dTput, probe, called, refreshed, account, steps,
                   result, elapsed>>

ApplyIsServerlessCapacityMode ==
    /\ fn = "IsServerlessCapacityMode"
    /\ Gives(Value(IsServerlessCapacityMode(arg)))

ApplyIsServerlessCapacityModeLegacy ==
    /\ fn = "IsServerlessCapacityModeLegacy"
    /\ Gives(Value(IsServerlessCapacityModeLegacy(arg)))

ApplyFlattenPermissions ==
    /\ fn = "flattenSqlRoleDefinitionPermissions"
    /\ Gives(Value(flattenSqlRoleDefinitionPermissions(arg)))

\* Read stores the flattened permissions in the "permissions" set; Create
\* and Update expand the List() of that set.
ApplyPermissionsRoundTrip ==
    /\ fn = "permissions"
    /\ Gives(Value(expandSqlRoleDefinitionPermissions(
                       ListOfPermissions(
                           SetPermissions(
                               flattenSqlRoleDefinitionPermissions(arg))))))

ApplyFlattenAccounts ==
    /\ fn = "flattenCosmosDbRestorableDatabaseAccounts"
    /\ Gives(flattenCosmosDbRestorableDatabaseAccounts(arg, AccountName))

ApplyFlattenLocations ==
    /\ fn = "flattenCosmosDbRestorableDatabaseAccountsRestorableLocations"
    /\ Gives(flattenCosmosDbRestorableDatabaseAccountsRestorableLocations(arg))

ApplyCreateUpdateOptions ==
    /\ fn = "CreateUpdateOptions"
    /\ Gives(Value(CreateUpdateOptions(arg)))

ApplyCreateOrUpdateStaticSiteBuildAppSettings ==
    /\ fn = "CreateOrUpdateStaticSiteBuildAppSettings"
    /\ Gives(Value(CreateOrUpdateStaticSiteBuildAppSettings(arg)))

ApplyGetDiagnosticLogsConfiguration ==
    /\ fn = "GetDiagnosticLogsConfiguration"
    /\ Gives(Value(GetDiagnosticLogsConfiguration(arg)))

ApplyRestorableDatabaseAccountsListByLocation ==
    /\ fn = "RestorableDatabaseAccountsListByLocation"
    /\ Gives(Value(RestorableDatabaseAccountsListByLocation(arg)))

\* What the paging steps leave alone.
PagingOnly ==
    UNCHANGED <<fn, arg, throughputResp, container, raced, hasThroughputChange,
                family, remote, locks, runs, pc, kind, op, target, dId, dBody,
                dTput, probe, called, refreshed, account, steps, result,
                elapsed>>

\* ExecutePaged requests the page the loop stands at; the list has arg
\* pages.
RequestPage ==
    /\ fn = "ListByFleet"
    /\ pager.pc = "request"
    /\ Len(pager.fetched) <= MaxPages
    /\ pager' = [pager EXCEPT !.pc = "decode"]
    /\ UNCHANGED out
    /\ PagingOnly

\* The page is decoded into the pager: its nextLink, when it carries one,
\* is stored; a page without nextLink leaves the stored link as it is.
DecodePage ==
    /\ fn = "ListByFleet"
    /\ pager.pc = "decode"
    /\ pager' = [pager EXCEPT
                   !.pc = "link",
                   !.fetched = Append(@, pager.page),
                   !.NextLink = IF pager.page < arg THEN pager.page + 1 ELSE @]
    /\ UNCHANGED out
    /\ PagingOnly

\* The loop asks the pager for the next link: it follows the link, or it
\* stops when there is none and ListByFleet gives the pages fetched.
FollowLink ==
    /\ fn = "ListByFleet"
    /\ pager.pc = "link"
    /\ LET r == NextPageLink(pager) IN
        /\ pager' = [r.p EXCEPT
                       !.returned = Append(@, r.result),
                       !.pc = IF r.result = NoLink THEN "done" ELSE "request",
                       !.page = IF r.result = NoLink THEN @ ELSE r.result]
        /\ out' = IF r.result = NoLink THEN Value(pager.fetched) ELSE out
    /\ PagingOnly

\* NextPageLink is called again, with no page decoded since the last call.
CallAgain ==
    /\ fn = "ListByFleet"
    /\ pager.pc = "done"
    /\ Len(pager.returned) <= arg
    /\ LET r == NextPageLink(pager) IN
        pager' = [r.p EXCEPT !.returned = Append(@, r.result)]
    /\ UNCHANGED out
    /\ PagingOnly

NextPure ==
    \/ ApplyIsServerlessCapacityMode
    \/ ApplyIsServerlessCapacityModeLegacy
    \/ ApplyFlattenPermissions
    \/ ApplyPermissionsRoundTrip
    \/ ApplyFlattenAccounts
    \/ ApplyFlattenLocations
    \/ ApplyCreateUpdateOptions
    \/ ApplyCreateOrUpdateStaticSiteBuildAppSettings
    \/ ApplyGetDiagnosticLogsConfiguration
    \/ ApplyRestorableDatabaseAccountsListByLocation
    \/ RequestPage
    \/ DecodePage
    \/ FollowLink
    \/ CallAgain

SpecPure == InitPure /\ [][NextPure]_vars

(***************************************************************************)
(* Properties of the handlers.                                             *)
(***************************************************************************)
Running(h) == pc[h] \notin {"idle", "done"}
Returned(h) == pc[h] = "done"
Succeeded(h) == Returned(h) /\ result[h] = Success
Did(h, s) == s \in Range(steps[h])
Other(h) == CHOOSE g \in Handlers : g # h

\* C1: a Create whose existence probe found a remote object with the same
\* identifier has returned the "already exists" (import required) error that
\* names the identifier, and has issued no create/update call; a Create that
\* issued its create/update call had a probe answered "not found".
ProbeFound(h) ==
    /\ op[h] = "create"
    /\ probe[h].status = 200
    /\ probe[h].modelId = "valid"
CreateGuard ==
    \A h \in Handlers :
        /\ ProbeFound(h) =>
              /\ Returned(h)
              /\ result[h] = Result("import", IDString(kind[h], target[h]), "")
              /\ ~Did(h, "mutate")
              /\ called[h] = NoResp
              /\ dId[h] = EmptyIDString
        /\ op[h] = "create" /\ Did(h, "mutate") => WasNotFound(probe[h])

\* A second Create finds the object the first one has created.
CreateGuardWitness ==
    \E h \in Handlers :
        /\ ProbeFound(h)
        /\ kind[h] = "trigger"
        /\ result[h].err = "import"
        /\ \E g \in Handlers :
              remote[<<kind[h], target[h]>>] = Payload(kind[h], g)

\* C2: for every resource, a Delete whose remote delete call answers
\* "not found" returns success.
DeleteIdempotent ==
    \A h \in Handlers :
        op[h] = "delete" /\ Returned(h) /\ WasNotFound(called[h])
            => result[h] = Success

\* C3: two handlers of role assignments or role definitions (create, update
\* or delete) on the same account are never both between acquiring and
\* releasing the lock, where their remote calls, poll and refresh read are.
InSection(h) ==
    /\ kind[h] \in {"roleassignment", "roledefinition"}
    /\ op[h] \in {"create", "update", "delete"}
    /\ pc[h] \in {"probe", "mutate", "poll", "pollnil", "read"}
MutualExclusion ==
    \A h1, h2 \in Handlers :
        h1 # h2 /\ InSection(h1) /\ InSection(h2)
            => target[h1].acct # target[h2].acct

\* One update polls inside its section while an update of a sibling on the
\* same account waits for the lock.
MutualExclusionWitness ==
    \E h \in Handlers :
        /\ op[h] = "update" /\ pc[h] = "poll" /\ InSection(h)
        /\ op[Other(h)] = "update" /\ pc[Other(h)] = "lock"
        /\ target[Other(h)].acct = target[h].acct
        /\ target[Other(h)].name # target[h].name

\* C4: a lock is held only by a running handler that locks that account:
\* a handler that has returned, by whatever path, holds no lock.
LockReleased ==
    \A a \in Accounts :
        locks[a] # NoHolder =>
            /\ Running(locks[a])
            /\ Locking(kind[locks[a]], op[locks[a]])
            /\ LockKey(kind[locks[a]], target[locks[a]]) = a

\* A locking handler has returned an error after it took the lock, and the
\* lock of its account is free.
LockReleasedWitness ==
    \E h \in Handlers :
        /\ Returned(h) /\ Did(h, "lock")
        /\ result[h].err = "waiting"
        /\ locks[target[h].acct] = NoHolder

\* C5: no handler waits for a lock it holds itself: a handler acquires at
\* most once per call, and the inline refresh read acquires nothing.
NoSelfDeadlock ==
    \A h \in Handlers :
        /\ pc[h] = "lock" => \A a \in Accounts : locks[a] # h
        /\ Cardinality({i \in 1..Len(steps[h]) : steps[h][i] = "lock"}) <= 1
        /\ Did(h, "lock") => steps[h][1] = "lock"

\* A handler runs its inline refresh read while it holds the lock.
NoSelfDeadlockWitness ==
    \E h \in Handlers :
        /\ pc[h] = "read" /\ Did(h, "poll")
        /\ locks[target[h].acct] = h

\* C6 as stated: for every resource kind, two invocations on the same
\* identifier never both have a mutating call or its poll outstanding.
Outstanding(h) == pc[h] \in {"poll", "tpoll"}
SameObject(h1, h2) == kind[h1] = kind[h2] /\ target[h1] = target[h2]
OneMutationPerObject ==
    \A h1, h2 \in Handlers :
        h1 # h2 /\ SameObject(h1, h2) => ~(Outstanding(h1) /\ Outstanding(h2))

\* C6: for role assignments and role definitions, two invocations on the
\* same identifier never both have a mutating call or its poll outstanding.
OneMutationPerRoleObject ==
    \A h1, h2 \in Handlers :
        /\ h1 # h2 /\ SameObject(h1, h2)
        /\ kind[h1] \in {"roleassignment", "roledefinition"}
        => ~(Outstanding(h1) /\ Outstanding(h2))

\* A delete of a role object has its poll outstanding while an update of
\* the same object is held back.
OneMutationPerRoleObjectWitness ==
    \E h \in Handlers :
        /\ kind[h] = "roledefinition" /\ op[h] = "delete" /\ Outstanding(h)
        /\ SameObject(h, Other(h))
        /\ op[Other(h)] = "update" /\ pc[Other(h)] = "lock"

\* C7: within one create/update the existence probe (made by Create only)
\* precedes the mutating call, the mutating call precedes the poll, and the
\* refresh read is issued only after the poll.
Rank(s) ==
    CASE s = "lock" -> 0
      [] s = "probe" -> 1
      [] s = "mutate" -> 2
      [] s = "poll" -> 3
      [] s = "tmutate" -> 4
      [] s = "tpoll" -> 5
      [] s = "read" -> 6
      [] s = "racct" -> 7
      [] s = "rtput" -> 8
StepOrder ==
    \A h \in Handlers :
        /\ \A i, j \in 1..Len(steps[h]) :
              i < j => Rank(steps[h][i]) < Rank(steps[h][j])
        /\ Did(h, "probe") => op[h] = "create"
        /\ Did(h, "mutate") /\ op[h] = "create" => Did(h, "probe")
        /\ Did(h, "poll") => Did(h, "mutate")
        /\ Did(h, "tpoll") => Did(h, "tmutate") /\ Did(h, "poll")
        /\ op[h] \in {"create", "update"} =>
              /\ pc[h] = "read" \/ Did(h, "read") => Did(h, "poll")
              /\ (pc[h] = "read" \/ Did(h, "read")) /\ Did(h, "tmutate")
                    => Did(h, "tpoll")

\* A Create has gone through probe, mutating call, poll and refresh read.
StepOrderWitness ==
    \E h \in Handlers :
        /\ op[h] = "create" /\ Succeeded(h)
        /\ steps[h] = <<"probe", "mutate", "poll", "read">>

\* C8: a handler waits in PollUntilDone only as long as the timeout
\* configured for its operation has not elapsed, and never returns success
\* for a mutating call whose poller did not complete.
PollTimeoutBound ==
    \A h \in Handlers :
        /\ pc[h] \in {"poll", "tpoll"} => op[h] \notin elapsed[h]
        /\ Succeeded(h) /\ op[h] \in {"create", "update", "delete"}
              => Did(h, "poll")

\* C9: a create/update whose create/update call failed, or whose poller failed,
\* has returned an error that names the identifier and the operation, has
\* not run the refresh read and has not set the ID; Create sets the ID only
\* after its poller succeeded.
CallFailed(h) ==
    /\ op[h] \in {"create", "update"}
    /\ \/ called[h].err /\ ~Did(h, "tmutate")
       \/ Returned(h) /\ result[h].cause \in {"failed", "timeout"}
FailureReturnsError ==
    \A h \in Handlers :
        /\ CallFailed(h) =>
              /\ Returned(h)
              /\ result[h].err \in {"mutate", "waiting", "waiting_throughput"}
              /\ result[h].id = IDString(kind[h], target[h])
              /\ ~Did(h, "read")
              /\ op[h] = "create" => dId[h] = EmptyIDString
        /\ op[h] = "create" /\ dId[h] # EmptyIDString =>
              /\ Did(h, "poll")
              /\ ~called[h].err /\ called[h] # NoResp
              /\ pc[h] \notin {"probe", "mutate", "poll", "pollnil"}

\* A Create whose poller failed has returned the error and set no ID.
FailureReturnsErrorWitness ==
    \E h \in Handlers :
        /\ op[h] = "create" /\ Returned(h)
        /\ result[h] = Error(h, "waiting", "failed")
        /\ dId[h] = EmptyIDString
        /\ ~Did(h, "read")

\* C10 as stated: after a successful create/update the payload fields hold
\* the values read back from the remote object.
RefreshOverwrites ==
    \A h \in Handlers :
        Succeeded(h) /\ op[h] \in {"create", "update"} /\ kind[h] # "database"
            => /\ refreshed[h].status = 200
               /\ dBody[h] = refreshed[h].body

\* C10: after a successful create/update that left the ID set, the payload
\* fields hold the values of the refresh response when it carries
\* Properties, and the request payload when it does not; when the refresh
\* read is answered "not found" the handler succeeds with the ID cleared
\* and the request payload left in the fields.
RefreshOverwritesWhenRead ==
    \A h \in Handlers :
        Succeeded(h) /\ op[h] \in {"create", "update"} /\ kind[h] # "database"
            => \/ /\ WasNotFound(refreshed[h])
                  /\ dId[h] = EmptyIDString
                  /\ dBody[h] = Payload(kind[h], h)
               \/ /\ refreshed[h].status = 200
                  /\ dId[h] = IDString(kind[h], target[h])
                  /\ dBody[h] = IF refreshed[h].props THEN refreshed[h].body
                                ELSE Payload(kind[h], h)

\* An update has succeeded with a value read back that is not the one it
\* sent: another update of the object came in before its refresh read.
RefreshOverwritesWhenReadWitness ==
    \E h \in Handlers :
        /\ Succeeded(h) /\ op[h] = "update" /\ kind[h] = "trigger"
        /\ refreshed[h].status = 200 /\ refreshed[h].props
        /\ refreshed[h].body # Payload(kind[h], h)
        /\ dBody[h] = refreshed[h].body

\* The error of the handler's client call is returned as it is: the handler
\* has stopped at the call and its error is the one the call is wrapped in.
ReturnedAt(h, errs) ==
    /\ Returned(h)
    /\ result[h].err \in errs
    /\ result[h].cause = ""

\* C11: no error of a client call is swallowed: but for "not found" on
\* delete, a failing probe, create/update, delete, throughput-update or get
\* call makes the handler return that call's error with no further step.
NothingSwallowed ==
    \A h \in Handlers :
        /\ probe[h].err /\ ~WasNotFound(probe[h])
              => ReturnedAt(h, {"checking"}) /\ ~Did(h, "mutate")
        /\ called[h].err /\ ~(op[h] = "delete" /\ WasNotFound(called[h]))
              => /\ ReturnedAt(h, {"mutate", "setting_throughput"})
                 /\ ~Did(h, "read")
                 /\ Did(h, "tmutate") => ~Did(h, "tpoll")
        /\ refreshed[h].err /\ ~WasNotFound(refreshed[h])
              => ReturnedAt(h, {"retrieving"}) /\ ~Did(h, "racct")

\* C12: a probe failure other than "not found", a failure without HTTP
\* response included, is fatal: Create has returned the "checking for
\* existing" error and made no mutating call; a Create that reached its
\* mutating call had its probe answered "not found".
ProbeFailureFatal ==
    \A h \in Handlers :
        op[h] = "create" =>
            /\ probe[h].err /\ ~WasNotFound(probe[h])
                  => /\ Returned(h)
                     /\ result[h] = Error(h, "checking", "")
                     /\ ~Did(h, "mutate")
                     /\ called[h] = NoResp
                     /\ dId[h] = EmptyIDString
            /\ Did(h, "mutate") \/ pc[h] = "mutate"
                  => probe[h].err /\ WasNotFound(probe[h])

\* A Create whose probe failed without an HTTP response has returned the
\* "checking for existing" error before any mutating call.
ProbeFailureFatalWitness ==
    \E h \in Handlers :
        /\ op[h] = "create" /\ probe[h] = Transport
        /\ Returned(h) /\ result[h].err = "checking"
        /\ steps[h] = <<"probe">>

\* C13: a resource Read whose get call is answered "not found" has cleared
\* the ID and returned success with the other fields unwritten; after any
\* other failure of the get call it has returned the "retrieving" error
\* and the ID is the one it read.
ReadNotFoundClearsId ==
    \A h \in Handlers :
        op[h] \in Ops =>
            /\ WasNotFound(refreshed[h])
                  => /\ Succeeded(h)
                     /\ dId[h] = EmptyIDString
                     /\ dBody[h] = Payload(kind[h], h)
                     /\ dTput[h] = "config"
                     /\ ~Did(h, "racct")
            /\ refreshed[h].err /\ ~WasNotFound(refreshed[h])
                  => /\ Returned(h)
                     /\ result[h] = Error(h, "retrieving", "")
                     /\ dId[h] = IDString(kind[h], target[h])
                     /\ dBody[h] = Payload(kind[h], h)

\* A Read of an object deleted out of band has succeeded with the ID
\* cleared.
ReadNotFoundClearsIdWitness ==
    \E h \in Handlers :
        /\ op[h] = "read" /\ refreshed[h] = NotFound
        /\ Succeeded(h) /\ dId[h] = EmptyIDString
        /\ steps[h] = <<"read">>

\* C14: an Update whose create/update call, or whose throughput-update
\* call, is answered "not found" has returned that call's error, without
\* polling it and without the refresh read: it never succeeds.
UpdateNotFoundIsError ==
    \A h \in Handlers :
        op[h] = "update" /\ WasNotFound(called[h]) =>
            /\ Returned(h)
            /\ result[h] = Error(h, IF Did(h, "tmutate") THEN "setting_throughput"
                                    ELSE "mutate", "")
            /\ Did(h, "tmutate") => kind[h] = "database" /\ ~Did(h, "tpoll")
            /\ ~Did(h, "tmutate") => ~Did(h, "poll")
            /\ ~Did(h, "read")

\* A database Update whose create/update call went through and whose
\* throughput-update call was answered "not found" has returned the
\* "setting Throughput" error.
UpdateNotFoundIsErrorWitness ==
    \E h \in Handlers :
        /\ op[h] = "update" /\ kind[h] = "database"
        /\ called[h] = NotFound
        /\ steps[h] = <<"mutate", "poll", "tmutate">>
        /\ Returned(h) /\ result[h].err = "setting_throughput"

\* The handler has made no remote call and holds no lock.
Untouched(h) ==
    /\ steps[h] = <<>>
    /\ \A a \in Accounts : locks[a] # h
    /\ probe[h] = NoResp /\ called[h] = NoResp /\ refreshed[h] = NoResp
    /\ account[h] = NoAccount

\* C15: a stored ID that does not parse, and a throughput change that
\* CheckForChangeFromAutoscaleAndManualThroughput rejects, end the handler
\* with an error before any remote call and before the lock is taken.
LocalFailureBeforeNetwork ==
    \A h \in Handlers :
        /\ dId[h] = BadIDString
              => Returned(h) /\ result[h].err = "parse" /\ Untouched(h)
        /\ result[h].err \in {"parse", "throughput_check"}
              => Returned(h) /\ Untouched(h)
        /\ result[h].err = "throughput_check"
              => op[h] = "update" /\ kind[h] = "database"

\* A role-assignment Update whose stored ID does not parse has returned
\* its error while another handler holds the lock of an account.
LocalFailureBeforeNetworkWitness ==
    \E h \in Handlers :
        /\ op[h] = "update" /\ kind[h] = "roleassignment"
        /\ dId[h] = BadIDString
        /\ Returned(h) /\ result[h].err = "parse"
        /\ Untouched(h)
        /\ \E a \in Accounts : locks[a] = Other(h)

\* The handler has issued the throughput fetch or is about to.
FetchesThroughput(h) == pc[h] = "rtput" \/ Did(h, "rtput")

\* C16: Read of the SQL database, resource and data source, fetches the
\* throughput exactly when the account it fetched in the same invocation
\* was read without error, has a non-empty ID and is not serverless; for a
\* serverless account it succeeds without the fetch.
ThroughputFetchGated ==
    \A h \in Handlers :
        /\ FetchesThroughput(h) <=>
              /\ Did(h, "racct")
              /\ ~account[h].err
              /\ account[h].idState = "valid"
              /\ ~IsServerlessCapacityMode(account[h])
        /\ Did(h, "racct") /\ ~account[h].err /\ account[h].idState = "valid"
              /\ IsServerlessCapacityMode(account[h])
              => Succeeded(h) /\ dTput[h] = "config"
        /\ Did(h, "racct") => kind[h] = "database" /\ ~refreshed[h].err

\* The data source has read a database of a serverless account and
\* succeeded without the throughput fetch.
ThroughputFetchGatedWitness ==
    \E h \in Handlers :
        /\ op[h] = "dataread" /\ kind[h] = "database"
        /\ account[h].caps = <<"", "EnableServerless">>
        /\ IsServerlessCapacityMode(account[h])
        /\ steps[h] = <<"read", "racct">>
        /\ Succeeded(h)

\* The account has a capability list with an entry named EnableServerless.
HasServerless(a) ==
    /\ a.hasProps
    /\ a.hasCaps
    /\ "EnableServerless" \in Range(a.caps)

\* C17: IsServerlessCapacityMode is true exactly when the capability list
\* of the account has an entry whose Name is present and is
\* "EnableServerless", false when the properties or the list are absent,
\* the list is empty or has only other or nameless entries; and
\* IsServerlessCapacityModeLegacy gives the same answer.
ServerlessPredicate ==
    fn \in {"IsServerlessCapacityMode", "IsServerlessCapacityModeLegacy"}
          /\ out.applied
        => /\ ~out.panic
           /\ out.v = HasServerless(arg)
           /\ out.v = IsServerlessCapacityMode(arg)
           /\ out.v = IsServerlessCapacityModeLegacy(arg)
           /\ ~arg.hasProps \/ ~arg.hasCaps \/ arg.caps = <<>> => ~out.v

\* The predicate has answered true for a list whose second entry is
\* EnableServerless and whose first has no name.
ServerlessPredicateWitness ==
    /\ fn = "IsServerlessCapacityMode"
    /\ arg.caps = <<"", "EnableServerless">>
    /\ out.applied /\ out.v = TRUE

\* C18: every flatten adapter returns a container and never crashes, and
\* returns the empty container for a nil or empty input; the locations
\* adapter is given the RestorableLocations of an account, which may be
\* nil.
FlattenNilSafe ==
    fn \in {"flattenSqlRoleDefinitionPermissions",
            "flattenCosmosDbRestorableDatabaseAccounts",
            "flattenCosmosDbRestorableDatabaseAccountsRestorableLocations"}
          /\ out.applied
        => /\ ~out.panic
           /\ arg.nil \/ arg.v = <<>> => out.v = <<>>

\* The permissions of a list, each as its set of data actions.
AsSets(p) ==
    [i \in 1..Len(p.v) |-> Range(FlattenStringSlice(p.v[i].dataActions))]

\* The list has no two equal entries.
Distinct(l) == \A i, j \in 1..Len(l) : l[i] = l[j] => i = j

\* The list of sets of data actions is in the order of the set, without
\* two equal entries.
InSetOrder(l) ==
    \A i, j \in 1..Len(l) :
        i < j => PermissionCode([data_actions |-> l[i]])
                   < PermissionCode([data_actions |-> l[j]])

\* C19 as stated: flattening a list of permissions into the state and
\* expanding the state gives the list back, each permission with the same
\* set of data actions.
PermissionsRoundTrip ==
    fn = "permissions" /\ out.applied
        => ~out.panic /\ AsSets(out.v) = AsSets(arg)

\* C19: flattening a list of permissions into the state and expanding the
\* state gives the same permissions as a set, each with the same set of
\* data actions and once only; it gives the list back when the list has no
\* two equal permissions and is in the order of the set.
PermissionsRoundTripAsSet ==
    fn = "permissions" /\ out.applied
        => /\ ~out.panic /\ ~out.v.nil
           /\ Range(AsSets(out.v)) = Range(AsSets(arg))
           /\ Distinct(AsSets(out.v))
           /\ \A i \in 1..Len(out.v.v) :
                 /\ ~out.v.v[i].dataActions.nil
                 /\ Distinct(out.v.v[i].dataActions.v)
           /\ InSetOrder(AsSets(arg)) => AsSets(out.v) = AsSets(arg)

\* Two different permissions have gone through the state and come back,
\* each with its data actions.
PermissionsRoundTripAsSetWitness ==
    /\ fn = "permissions" /\ out.applied
    /\ Len(arg.v) = 2 /\ Len(out.v.v) = 2
    /\ AsSets(arg) = <<{"read", "write"}, {"read"}>>
    /\ AsSets(out.v) = <<{"read"}, {"read", "write"}>>

OptionsOmitAbsent ==
    fn = "CreateUpdateOptions" /\ out.applied =>
        /\ ~out.panic
        /\ out.v.throughput.nil <=>
              ~(arg.throughput.set /\ arg.throughput.value # 0)
        /\ ~out.v.throughput.nil => out.v.throughput.v = arg.throughput.value
        /\ out.v.autoScaleSettings.nil <=> ~arg.autoscale_settings.set
        /\ ~out.v.autoScaleSettings.nil =>
              out.v.autoScaleSettings.v = arg.autoscale_settings.value

\* Options built for a throughput configured as zero and no autoscale
\* block are empty.
OptionsOmitAbsentWitness ==
    /\ fn = "CreateUpdateOptions" /\ out.applied
    /\ arg.throughput = Configured(0) /\ ~arg.autoscale_settings.set
    /\ out.v.throughput.nil /\ out.v.autoScaleSettings.nil

\* C22: in Read of the SQL database, resource and data source, a "not
\* found" answer to the throughput fetch is no error: throughput and
\* autoscale_settings are set to empty and the handler succeeds; any other
\* failure of the fetch returns an error and leaves the two fields alone.
ThroughputNotFoundTolerated ==
    \A h \in Handlers :
        /\ WasNotFound(throughputResp[h])
              => Succeeded(h) /\ dTput[h] = "nil"
        /\ throughputResp[h].err /\ ~WasNotFound(throughputResp[h])
              => /\ Returned(h)
                 /\ result[h] = Error(h, "throughput_read", "")
                 /\ dTput[h] = "config"
        /\ throughputResp[h] # NoResp
              => Did(h, "rtput") /\ kind[h] = "database"

\* The data source has read a database whose throughput fetch was answered
\* "not found" and has succeeded with the throughput fields empty.
ThroughputNotFoundToleratedWitness ==
    \E h \in Handlers :
        /\ op[h] = "dataread" /\ throughputResp[h] = NotFound
        /\ steps[h] = <<"read", "racct", "rtput">>
        /\ Succeeded(h) /\ dTput[h] = "nil"

\* C23: after a successful create of a trigger or function and its refresh
\* read, the container_id of the state is the configured one, whatever
\* subscription it names.
ContainerIdKept ==
    \A h \in Handlers :
        /\ kind[h] \in {"trigger", "function"} /\ op[h] = "create"
        /\ Succeeded(h) /\ refreshed[h].status = 200
        => container[h].state = container[h].configured

\* C24: in Create of the stored procedure and of the SQL database, a probe
\* that succeeds with a Model.Id that is nil or empty makes the handler
\* return the "generating import ID" error: it neither dereferences the
\* missing Id nor returns an import-required error with an empty ID.
MissingIdReported ==
    \A h \in Handlers :
        /\ kind[h] \in {"storedproc", "database"} /\ op[h] = "create"
        /\ probe[h].status = 200
        => /\ result[h].err # "panic"
           /\ result[h].err = "import" => result[h].id # EmptyIDString
           /\ probe[h].modelId \in {"nil", "empty"}
                 => Returned(h) /\ result[h].err = "generating_import_id"

\* C25: of two concurrent Creates of the same role assignment, or of the
\* same role definition, at most one succeeds: a Create that was in
\* progress when the other returned success makes its probe afterwards,
\* finds the object and returns the already-exists error, or the error of
\* the probe, without a create call (as long as no Delete removes the
\* object the first Create made).
OneCreateWins ==
    \A h \in Handlers :
        raced[h] /\ kind[h] \in {"roleassignment", "roledefinition"}
        => /\ ~Succeeded(h)
           /\ ~Did(h, "mutate") /\ pc[h] # "mutate"
           /\ Did(h, "probe") => ~WasNotFound(probe[h])
           /\ Returned(h) => result[h].err \in {"import", "checking"}
           /\ remote[<<kind[h], target[h]>>] # Absent

\* A Create of a role assignment that waited for the lock while another
\* Create of the same assignment succeeded has returned the already-exists
\* error.
OneCreateWinsWitness ==
    \E h \in Handlers :
        /\ raced[h] /\ kind[h] = "roleassignment" /\ op[h] = "create"
        /\ steps[h] = <<"lock", "probe">>
        /\ Returned(h) /\ result[h].err = "import"

\* C26: the context of a handler is derived from the timeout configured
\* for its own operation, the Update handlers of the stored procedure and
\* of the SQL database included, and a wait that ends on a timeout ends on
\* that one.
OwnTimeout ==
    \A h \in Handlers :
        pc[h] # "idle" /\ op[h] \in Ops =>
            /\ CtxKind(kind[h], op[h]) = op[h]
            /\ elapsed[h] = {}

\* The first n steps of handler h.
Began(h, prefix) ==
    /\ Len(steps[h]) >= Len(prefix)
    /\ SubSeq(steps[h], 1, Len(prefix)) = prefix

\* C27: Update of the SQL database issues the throughput-update call only
\* when the configuration has a throughput change and only after the
\* create/update poller is done; it issues the refresh read only after the
\* throughput poller, when there is one, is done.
ThroughputOrder ==
    \A h \in Handlers :
        /\ pc[h] \in {"tmutate", "tpoll", "tpollnil"} \/ Did(h, "tmutate")
              => /\ kind[h] = "database" /\ op[h] = "update"
                 /\ hasThroughputChange[h]
                 /\ Began(h, <<"mutate", "poll">>)
                 /\ result[h].cause = "" \/ Did(h, "tpoll")
        /\ kind[h] = "database" /\ op[h] = "update"
              /\ (pc[h] = "read" \/ Did(h, "read"))
              => IF hasThroughputChange[h]
                 THEN /\ Began(h, <<"mutate", "poll", "tmutate", "tpoll">>)
                      /\ ~called[h].err
                 ELSE /\ Began(h, <<"mutate", "poll">>)
                      /\ ~Did(h, "tmutate")

\* An Update of the SQL database with a throughput change has updated the
\* database, then the throughput, then read the database back.
ThroughputOrderWitness ==
    \E h \in Handlers :
        /\ kind[h] = "database" /\ op[h] = "update"
        /\ hasThroughputChange[h]
        /\ Began(h, <<"mutate", "poll", "tmutate", "tpoll", "read">>)
        /\ Succeeded(h)

\* C28: a data-source read of an object reported "not found" has returned
\* the "was not found" error naming the identifier, with no ID set and no
\* field written; the ID of a data source is set only after its get call
\* succeeded.
DataSourceNotFound ==
    \A h \in Handlers :
        op[h] = "dataread" =>
            /\ WasNotFound(refreshed[h])
                  => /\ Returned(h)
                     /\ result[h] = Error(h, "missing", "")
                     /\ steps[h] = <<"read">>
                     /\ dId[h] = EmptyIDString
                     /\ dBody[h] = Payload(kind[h], h)
                     /\ dTput[h] = "config"
            /\ dId[h] # EmptyIDString
                  => /\ Did(h, "read") /\ refreshed[h].status = 200
                     /\ dId[h] = IDString(kind[h], target[h])

\* The role-definition data source has read a definition that does not
\* exist and has returned the "was not found" error.
DataSourceNotFoundWitness ==
    \E h \in Handlers :
        /\ op[h] = "dataread" /\ kind[h] = "roledefinition"
        /\ refreshed[h] = NotFound
        /\ Returned(h) /\ result[h].err = "missing"
        /\ dId[h] = EmptyIDString

\* C29: the pager hands out each next-page link once: after NextPageLink
\* the stored link is nil, no link is returned twice, a call with no page
\* decoded since the last one returns nil, and the loop stops after the
\* first page without nextLink, with every page fetched once.
LinkHandedOutOnce ==
    fn = "ListByFleet" =>
        /\ pager.pc \in {"request", "decode", "done"} => pager.NextLink = NoLink
        /\ \A i, j \in 1..Len(pager.returned) :
              i < j /\ pager.returned[i] # NoLink
                  => pager.returned[i] # pager.returned[j]
        /\ \A i \in 1..Len(pager.returned) :
              pager.returned[i] = IF i < arg THEN i + 1 ELSE NoLink
        /\ \A i \in 1..Len(pager.fetched) : pager.fetched[i] = i
        /\ Len(pager.fetched) <= arg
        /\ pager.pc = "done" =>
              /\ Len(pager.fetched) = arg
              /\ out = Value(pager.fetched)

\* A list of two pages has been fetched, the loop has stopped, and a
\* further call of NextPageLink has returned nil.
LinkHandedOutOnceWitness ==
    /\ fn = "ListByFleet" /\ arg = 2
    /\ pager.pc = "done"
    /\ pager.fetched = <<1, 2>>
    /\ pager.returned = <<2, NoLink, NoLink>>
    /\ pager.NextLink = NoLink

\* The request of a generated client operation was executed: no earlier
\* step returned an error.
Executed ==
    CASE fn = "CreateOrUpdateStaticSiteBuildAppSettings" ->
             ~arg.newRequest /\ ~arg.marshal
      [] fn = "GetDiagnosticLogsConfiguration" -> ~arg.newRequest
      [] fn = "RestorableDatabaseAccountsListByLocation" -> ~arg.prepare
      [] OTHER -> FALSE

\* What executing the request gave: the response, if any, and the error.
Execution ==
    IF fn = "RestorableDatabaseAccountsListByLocation"
    THEN arg.send ELSE arg.execute

\* C30: a generated client operation gives a result that carries the HTTP
\* response whenever one was received, also when the operation returns an
\* error, and whose Model is nil whenever executing the request returned
\* an error.
ResponseKeptOnError ==
    out.applied /\ Executed =>
        /\ ~out.panic
        /\ ~Execution.resp.nil => out.v.HttpResponse = Execution.resp
        /\ Execution.err => out.v.err /\ out.v.Model.nil

\* GetDiagnosticLogsConfiguration has returned an error together with the
\* 404 response that executing its request received, and no Model.
ResponseKeptOnErrorWitness ==
    /\ out.applied /\ Executed
    /\ Execution = [resp |-> Ptr("404"), err |-> TRUE]
    /\ out.v.err
    /\ out.v.HttpResponse = Ptr("404")
    /\ out.v.Model.nil
    /\ fn = "GetDiagnosticLogsConfiguration"

====
